---- MODULE Spec2Model ----
(***************************************************************************)
(* Model of bonicbot_bridge/servo.py: the ServoController command          *)
(* pipeline (validation, clamping, unit conversion, ordered command array, *)
(* cache of joint angles refreshed from /joint_states feedback).           *)
(*                                                                         *)
(* Number representation.  The code works on Python floats.  Here an angle *)
(* in degrees is an integer count of 1/100 degree and an angle in radians  *)
(* is an integer count of 1/5000 radian; math.radians and math.degrees are *)
(* each one multiplication by a constant followed by rounding to the grid, *)
(* as the float operations are.  The two grids have about the same angular *)
(* spacing, so, as with floats (math.degrees(math.radians(30.0)) is        *)
(* 29.999999999999996), a conversion there and back may miss by one unit.  *)
(*                                                                         *)
(* Sequences are 1-based here and 0-based in Python: index i of the code   *)
(* is index i+1 of the model.                                              *)
(***************************************************************************)
EXTENDS Integers, Sequences, FiniteSets, TLC

(***************************************************************************)
(* Module constants of servo.py                                            *)
(***************************************************************************)

\* servo.py:10-18, limits (min, max) in 1/100 degree
SERVO_JOINTS ==
    [ left_shoulder_pitch_joint   |-> << -4500, 18000 >>,
      left_elbow_joint            |-> <<     0,  5000 >>,
      right_shoulder_pitch_joint  |-> << -4500, 18000 >>,
      right_elbow_joint           |-> <<     0,  5000 >>,
      left_gripper_finger1_joint  |-> << -4500,  6000 >>,
      right_gripper_finger1_joint |-> << -4500,  6000 >>,
      neck_yaw_joint              |-> << -9000,  9000 >> ]

\* servo.py:21-29
SERVO_ORDER ==
    << "left_shoulder_pitch_joint",
       "left_elbow_joint",
       "right_shoulder_pitch_joint",
       "right_elbow_joint",
       "left_gripper_finger1_joint",
       "right_gripper_finger1_joint",
       "neck_yaw_joint" >>

(***************************************************************************)
(* Python values and library functions used by the code                    *)
(***************************************************************************)

\* a Python float (on the grid of its unit)
PyFloat(v) == [t |-> "float", v |-> v]

\* a Python value that is not a real number (a str in a position list)
PyStr == [t |-> "str", v |-> 0]

PyNone == [t |-> "None", v |-> 0]

PyTrue == [t |-> "bool", v |-> 1]

\* a (min, max) tuple, and a reference to a dict object
PyTuple(x) == [t |-> "tuple", v |-> x]

PyDictRef(x) == [t |-> "dict", v |-> x]

\* no dict object
NoDict == << >>

\* x * num / den rounded to the nearest integer, symmetric in the sign
Scale(x, num, den) ==
    IF x >= 0 THEN (x * num + den \div 2) \div den
              ELSE -(((-x) * num + den \div 2) \div den)

\* math.radians: 1/100 degree -> 1/5000 radian (pi/180 * 50 = 0.8727)
ToRadians(d) == Scale(d, 8727, 10000)

\* math.degrees left out: the radians stored as they come
ToDegrees_NoConversion(r) == r


\* math.degrees: 1/5000 radian -> 1/100 degree (180/pi / 50 = 1.1459)
ToDegrees(r) == Scale(r, 11459, 10000)

\* max(a, b) and min(a, b)
PyMax(a, b) == IF b > a THEN b ELSE a

PyMin(a, b) == IF b < a THEN b ELSE a

\* dict.update: d with every entry of e written into it
DictUpdate(d, e) ==
    [k \in (DOMAIN d) \cup (DOMAIN e) |-> IF k \in DOMAIN e THEN e[k] ELSE d[k]]

\* d[k] = v on a dict
DictSet(d, k, v) ==
    IF k \in DOMAIN d
    THEN [d EXCEPT ![k] = v]
    ELSE [x \in (DOMAIN d) \cup {k} |-> IF x = k THEN v ELSE d[x]]

\* the exceptions the code raises or meets; str(e) is the msg field
NoError == << >>

UnknownJointError(joint_name) == << "Unknown servo joint", joint_name >>

TransportError == << "publish failed" >>

TypeError == << "must be real number" >>

\* BonicBotError(f"Failed to set servo angles: {str(e)}")
BonicBotError(e) == << "BonicBotError", "Failed to set servo angles" >> \o e

\* BonicBotError(f"Unknown servo joint: {joint_name}") reaching the caller
UnknownJointRaised(joint_name) == << "BonicBotError" >> \o UnknownJointError(joint_name)

\* one line written by print()
ClampWarning(joint_name, angle) == << "clamping", joint_name, angle >>

\* print(f"Error processing joint states: {e}")
FeedbackErrorLine(e) == << "Error processing joint states", e[1], 0 >>

\* _validate_angle that warns about an angle outside the limits and
\* returns it as it came
_validate_angle_NoClamp(joint_name, angle) ==
    IF joint_name \notin DOMAIN SERVO_JOINTS
    THEN [exc |-> UnknownJointError(joint_name), ret |-> 0, out |-> << >>]
    ELSE LET min_angle == SERVO_JOINTS[joint_name][1]
             max_angle == SERVO_JOINTS[joint_name][2]
         IN  IF angle < min_angle \/ angle > max_angle
             THEN [exc |-> NoError, ret |-> angle,
                   out |-> << ClampWarning(joint_name, angle) >>]
             ELSE [exc |-> NoError, ret |-> angle, out |-> << >>]

(***************************************************************************)
(* ServoController._validate_angle (servo.py:85-105)                       *)
(* Result: exc (the exception raised, NoError when it returns), ret (the   *)
(* returned angle), out (the lines printed).                               *)
(***************************************************************************)
_validate_angle(joint_name, angle) ==
    IF joint_name \notin DOMAIN SERVO_JOINTS
    THEN [exc |-> UnknownJointError(joint_name), ret |-> 0, out |-> << >>]
    ELSE LET min_angle == SERVO_JOINTS[joint_name][1]
             max_angle == SERVO_JOINTS[joint_name][2]
         IN  IF angle < min_angle \/ angle > max_angle
             THEN [exc |-> NoError,
                   ret |-> PyMax(min_angle, PyMin(max_angle, angle)),
                   out |-> << ClampWarning(joint_name, angle) >>]
             ELSE [exc |-> NoError, ret |-> angle, out |-> << >>]

(***************************************************************************)
(* The loop of set_servo_angles (servo.py:123-125) from item i on.         *)
(* angles is the request: the items of the dict in iteration order, each   *)
(* a pair <<joint_name, angle>>.                                           *)
(***************************************************************************)
RECURSIVE ValidateItems(_, _, _, _)
ValidateItems(angles, i, target_angles, out) ==
    IF i > Len(angles)
    THEN [exc |-> NoError, target_angles |-> target_angles, out |-> out]
    ELSE LET joint_name == angles[i][1]
             r == _validate_angle(joint_name, angles[i][2])
         IN  IF r.exc # NoError
             THEN [exc |-> r.exc, target_angles |-> target_angles,
                   out |-> out \o r.out]
             ELSE ValidateItems(angles, i + 1,
                                DictSet(target_angles, joint_name, r.ret),
                                out \o r.out)

\* the command array filled one place late: SERVO_ORDER[i - 1] at index i
\* (Python's index -1 is the last joint)
CommandData_OffByOne(target_angles) ==
    [i \in 1..Len(SERVO_ORDER) |->
        ToRadians(target_angles[SERVO_ORDER[IF i = 1 THEN Len(SERVO_ORDER)
                                                     ELSE i - 1]])]

\* servo.py:128-131
CommandData(target_angles) ==
    [i \in 1..Len(SERVO_ORDER) |-> ToRadians(target_angles[SERVO_ORDER[i]])]

\* set_servo_angles caching the angles as they were requested, not as they
\* were validated and sent
SetServoAngles_CachesRequest(current, angles, publish_ok) ==
    LET v == ValidateItems(angles, 1, current, << >>)
        asked == [k \in {angles[i][1] : i \in 1..Len(angles)} |->
                     LET i == CHOOSE i \in 1..Len(angles) : angles[i][1] = k
                     IN  angles[i][2]]
    IN  IF v.exc # NoError
        THEN [angles |-> current, published |-> << >>, out |-> v.out,
              exc |-> BonicBotError(v.exc)]
        ELSE IF ~publish_ok
        THEN [angles |-> current, published |-> << >>, out |-> v.out,
              exc |-> BonicBotError(TransportError)]
        ELSE [angles |-> DictUpdate(current, asked),
              published |-> << CommandData(v.target_angles) >>,
              out |-> v.out, exc |-> NoError]

\* set_servo_angles refusing a request that names no joint
SetServoAngles_RefusesEmpty(current, angles, publish_ok) ==
    LET v == ValidateItems(angles, 1, current, << >>)
    IN  IF v.exc # NoError
        THEN [angles |-> current, published |-> << >>, out |-> v.out,
              exc |-> BonicBotError(v.exc)]
        ELSE IF ~publish_ok \/ angles = << >>
        THEN [angles |-> current, published |-> << >>, out |-> v.out,
              exc |-> BonicBotError(TransportError)]
        ELSE [angles |-> DictUpdate(current, v.target_angles),
              published |-> << CommandData(v.target_angles) >>,
              out |-> v.out, exc |-> NoError]


\* set_servo_angles starting its working copy from the neutral position
\* instead of from the cache
SetServoAngles_FromNeutral(current, angles, publish_ok) ==
    LET v == ValidateItems(angles, 1, [joint \in DOMAIN current |-> 0], << >>)
    IN  IF v.exc # NoError
        THEN [angles |-> current, published |-> << >>, out |-> v.out,
              exc |-> BonicBotError(v.exc)]
        ELSE IF ~publish_ok
        THEN [angles |-> current, published |-> << >>, out |-> v.out,
              exc |-> BonicBotError(TransportError)]
        ELSE [angles |-> DictUpdate(current, v.target_angles),
              published |-> << CommandData(v.target_angles) >>,
              out |-> v.out, exc |-> NoError]

\* set_servo_angles updating the cache before it publishes
SetServoAngles_UpdateFirst(current, angles, publish_ok) ==
    LET v == ValidateItems(angles, 1, current, << >>)
    IN  IF v.exc # NoError
        THEN [angles |-> current, published |-> << >>, out |-> v.out,
              exc |-> BonicBotError(v.exc)]
        ELSE IF ~publish_ok
        THEN [angles |-> DictUpdate(current, v.target_angles),
              published |-> << >>, out |-> v.out,
              exc |-> BonicBotError(TransportError)]
        ELSE [angles |-> DictUpdate(current, v.target_angles),
              published |-> << CommandData(v.target_angles) >>,
              out |-> v.out, exc |-> NoError]

\* set_servo_angles publishing once per item of the request, inside the loop
SetServoAngles_PublishPerItem(current, angles, publish_ok) ==
    LET v == ValidateItems(angles, 1, current, << >>)
    IN  IF v.exc # NoError
        THEN [angles |-> current, published |-> << >>, out |-> v.out,
              exc |-> BonicBotError(v.exc)]
        ELSE IF ~publish_ok
        THEN [angles |-> current, published |-> << >>, out |-> v.out,
              exc |-> BonicBotError(TransportError)]
        ELSE [angles |-> DictUpdate(current, v.target_angles),
              published |-> [k \in 1..Len(angles) |->
                                CommandData(v.target_angles)],
              out |-> v.out, exc |-> NoError]

\* set_servo_angles writing each validated angle straight into the cache
\* instead of into a working copy
SetServoAngles_NoWorkingCopy(current, angles, publish_ok) ==
    LET v == ValidateItems(angles, 1, current, << >>)
    IN  IF v.exc # NoError
        THEN [angles |-> v.target_angles, published |-> << >>, out |-> v.out,
              exc |-> BonicBotError(v.exc)]
        ELSE IF ~publish_ok
        THEN [angles |-> v.target_angles, published |-> << >>, out |-> v.out,
              exc |-> BonicBotError(TransportError)]
        ELSE [angles |-> v.target_angles,
              published |-> << CommandData(v.target_angles) >>,
              out |-> v.out, exc |-> NoError]

(***************************************************************************)
(* ServoController.set_servo_angles (servo.py:107-143) on the cache        *)
(* current, with publish_ok telling whether servo_pub.publish returns      *)
(* (TRUE) or raises (FALSE).  Result: angles (the cache afterwards),       *)
(* published (the messages handed to publish that went out), out (lines    *)
(* printed), exc (the exception raised, NoError when it returns True).     *)
(***************************************************************************)
SetServoAngles(current, angles, publish_ok) ==
    LET v == ValidateItems(angles, 1, current, << >>)
    IN  IF v.exc # NoError
        THEN [angles |-> current, published |-> << >>, out |-> v.out,
              exc |-> BonicBotError(v.exc)]
        ELSE IF ~publish_ok
        THEN [angles |-> current, published |-> << >>, out |-> v.out,
              exc |-> BonicBotError(TransportError)]
        ELSE [angles |-> DictUpdate(current, v.target_angles),
              published |-> << CommandData(v.target_angles) >>,
              out |-> v.out, exc |-> NoError]

(***************************************************************************)
(* The methods built on set_servo_angles (servo.py:145-156, 182-295).      *)
(* Each takes the cache and publish_ok and has the result record of        *)
(* SetServoAngles.                                                         *)
(***************************************************************************)

\* ServoController.set_single_servo (servo.py:145-156)
SetSingleServo(current, joint_name, angle, publish_ok) ==
    SetServoAngles(current, << <<joint_name, angle>> >>, publish_ok)

\* move_left_arm commanding the shoulder and then the elbow, each with its
\* own set_single_servo call
MoveLeftArm_TwoCalls(current, shoulder, elbow, publish_ok) ==
    LET r1 == SetSingleServo(current, "left_shoulder_pitch_joint", shoulder,
                             publish_ok)
        r2 == SetSingleServo(r1.angles, "left_elbow_joint", elbow, publish_ok)
    IN  IF r1.exc # NoError
        THEN r1
        ELSE [angles |-> r2.angles, published |-> r1.published \o r2.published,
              out |-> r1.out \o r2.out, exc |-> r2.exc]

\* ServoController.move_left_arm (servo.py:182-196)
MoveLeftArm(current, shoulder, elbow, publish_ok) ==
    SetServoAngles(current,
                   << << "left_shoulder_pitch_joint", shoulder >>,
                      << "left_elbow_joint", elbow >> >>,
                   publish_ok)

\* ServoController.move_right_arm (servo.py:198-212)
MoveRightArm(current, shoulder, elbow, publish_ok) ==
    SetServoAngles(current,
                   << << "right_shoulder_pitch_joint", shoulder >>,
                      << "right_elbow_joint", elbow >> >>,
                   publish_ok)

\* ServoController.set_grippers (servo.py:214-228)
SetGrippers(current, left, right, publish_ok) ==
    SetServoAngles(current,
                   << << "left_gripper_finger1_joint", left >>,
                      << "right_gripper_finger1_joint", right >> >>,
                   publish_ok)

\* open_grippers asking for 90 degrees
OpenGrippers_Wide(current, publish_ok) ==
    SetGrippers(current, 9000, 9000, publish_ok)

\* ServoController.open_grippers (servo.py:230-237)
OpenGrippers(current, publish_ok) ==
    SetGrippers(current, 6000, 6000, publish_ok)

\* ServoController.close_grippers (servo.py:239-246)
CloseGrippers(current, publish_ok) ==
    SetGrippers(current, -4500, -4500, publish_ok)

\* ServoController.set_neck (servo.py:248-258)
SetNeck(current, yaw, publish_ok) ==
    SetSingleServo(current, "neck_yaw_joint", yaw, publish_ok)

\* ServoController.look_left (servo.py:260-267)
LookLeft(current, publish_ok) == SetNeck(current, 9000, publish_ok)

\* ServoController.look_right (servo.py:269-276)
LookRight(current, publish_ok) == SetNeck(current, -9000, publish_ok)

\* ServoController.look_center (servo.py:278-285)
LookCenter(current, publish_ok) == SetNeck(current, 0, publish_ok)

\* servo.py:294, {joint: 0.0 for joint in SERVO_JOINTS}: the items come in
\* the order of the SERVO_JOINTS literal, which is that of SERVO_ORDER
NeutralAngles == [i \in 1..Len(SERVO_ORDER) |-> << SERVO_ORDER[i], 0 >>]

\* ServoController.reset_all_servos (servo.py:287-295)
ResetAllServos(current, publish_ok) ==
    SetServoAngles(current, NeutralAngles, publish_ok)


(***************************************************************************)
(* ServoController._joint_state_callback (servo.py:64-83)                  *)
(* msg is the JointState dict: has_name / has_position tell whether the    *)
(* key is present, name and position are the two lists.                    *)
(***************************************************************************)
MsgGet(msg, key, default) ==
    IF key = "name"
    THEN (IF msg.has_name THEN msg.name ELSE default)
    ELSE (IF msg.has_position THEN msg.position ELSE default)

\* the loop pairing names and positions the way zip_longest(fillvalue=0.0)
\* does: a name with no position gets 0.0
RECURSIVE FeedbackLoop_Padded(_, _, _, _)
FeedbackLoop_Padded(names, positions, i, current) ==
    IF i > Len(names)
    THEN [angles |-> current, failed |-> FALSE]
    ELSE IF names[i] \in DOMAIN current
    THEN LET radians == IF i <= Len(positions) THEN positions[i] ELSE PyFloat(0)
         IN  IF radians.t # "float"
             THEN [angles |-> current, failed |-> TRUE]
             ELSE FeedbackLoop_Padded(names, positions, i + 1,
                                      DictSet(current, names[i], ToDegrees(radians.v)))
    ELSE FeedbackLoop_Padded(names, positions, i + 1, current)

\* the loop clamping each fed-back angle to the joint's limits
RECURSIVE FeedbackLoop_Clamped(_, _, _, _)
FeedbackLoop_Clamped(names, positions, i, current) ==
    IF i > Len(names)
    THEN [angles |-> current, failed |-> FALSE]
    ELSE IF names[i] \in DOMAIN current /\ i <= Len(positions)
    THEN IF positions[i].t # "float"
         THEN [angles |-> current, failed |-> TRUE]
         ELSE FeedbackLoop_Clamped(names, positions, i + 1,
                  DictSet(current, names[i],
                          _validate_angle(names[i], ToDegrees(positions[i].v)).ret))
    ELSE FeedbackLoop_Clamped(names, positions, i + 1, current)

\* the loop storing the position of every name, configured or not
RECURSIVE FeedbackLoop_AnyName(_, _, _, _)
FeedbackLoop_AnyName(names, positions, i, current) ==
    IF i > Len(names)
    THEN [angles |-> current, failed |-> FALSE]
    ELSE IF i <= Len(positions)
    THEN IF positions[i].t # "float"
         THEN [angles |-> current, failed |-> TRUE]
         ELSE FeedbackLoop_AnyName(names, positions, i + 1,
                  DictSet(current, names[i], ToDegrees(positions[i].v)))
    ELSE FeedbackLoop_AnyName(names, positions, i + 1, current)

\* the loop of servo.py:76-80 from index i on; failed: math.degrees raised
RECURSIVE FeedbackLoop(_, _, _, _)
FeedbackLoop(names, positions, i, current) ==
    IF i > Len(names)
    THEN [angles |-> current, failed |-> FALSE]
    ELSE IF names[i] \in DOMAIN current /\ i <= Len(positions)
    THEN IF positions[i].t # "float"
         THEN [angles |-> current, failed |-> TRUE]
         ELSE FeedbackLoop(names, positions, i + 1,
                           DictSet(current, names[i], ToDegrees(positions[i].v)))
    ELSE FeedbackLoop(names, positions, i + 1, current)

JointStateCallback(current, msg) ==
    LET names == MsgGet(msg, "name", << >>)
        positions == MsgGet(msg, "position", << >>)
        r == FeedbackLoop(names, positions, 1, current)
    IN  [angles |-> r.angles,
         out |-> IF r.failed THEN << FeedbackErrorLine(TypeError) >> ELSE << >>,
         exc |-> NoError]

(***************************************************************************)
(* The getters                                                             *)
(***************************************************************************)

\* get_servo_angles handing out self.current_angles itself
GetServoAngles_ReturnsCache(current) ==
    [ref |-> "self.current_angles", contents |-> NoDict]

\* ServoController.get_servo_angles (servo.py:158-165): the object handed
\* to the caller (ref) and, when it is a new dict, what it holds
GetServoAngles(current) ==
    [ref |-> "new dict", contents |-> current]

\* get_single_servo reading the cache with dict.get(joint_name, 0.0)
GetSingleServo_Default(current, joint_name) ==
    IF joint_name \notin DOMAIN current
    THEN [exc |-> NoError, ret |-> PyFloat(0)]
    ELSE [exc |-> NoError, ret |-> PyFloat(current[joint_name])]

\* ServoController.get_single_servo (servo.py:167-180)
GetSingleServo(current, joint_name) ==
    IF joint_name \notin DOMAIN current
    THEN [exc |-> UnknownJointRaised(joint_name), ret |-> PyNone]
    ELSE [exc |-> NoError, ret |-> PyFloat(current[joint_name])]

\* ServoController.get_servo_limits (servo.py:345-362); "None" is joint_name=None
GetServoLimits(joint_name) ==
    IF joint_name = "None"
    THEN [exc |-> NoError, ret |-> PyDictRef(SERVO_JOINTS)]
    ELSE IF joint_name \notin DOMAIN SERVO_JOINTS
    THEN [exc |-> UnknownJointRaised(joint_name), ret |-> PyNone]
    ELSE [exc |-> NoError, ret |-> PyTuple(SERVO_JOINTS[joint_name])]

(***************************************************************************)
(* Bounds and the inputs drawn from them                                   *)
(***************************************************************************)

\* longest request (number of items of the dict given to set_servo_angles)
MaxReq == 2

\* longest name list and longest position list of a feedback message
MaxFb == 2

\* set_servo_angles is not called any more after this many publishes
MaxPublished == 2

\* joint names used in requests: two configured joints and an unknown one
ReqJoints == {"left_elbow_joint", "neck_yaw_joint", "tail_joint"}

\* requested angles (1/100 degree): below every range, the elbow's maximum
\* (inside the neck's range), above every range
ReqAngles == {-10000, 5000, 20000}

\* joint names of feedback messages
FbJoints == {"left_elbow_joint", "neck_yaw_joint", "wheel_left_joint"}

\* the readings of feedback messages, in 1/5000 radian, by index in the
\* position list: about 20 degrees at the odd indices and about -120
\* degrees, outside the range of every joint, at the even ones
FbReadings(i) == IF i % 2 = 1 THEN 1745 ELSE -10472

SeqsUpTo(S, n) == UNION {[1..k -> S] : k \in 0..n}

\* the position lists of feedback messages: the element at each index is
\* that index's reading or a value that is no number
FbPositionLists ==
    UNION {{[i \in 1..k |-> IF i \in bad THEN PyStr ELSE PyFloat(FbReadings(i))] :
                bad \in SUBSET (1..k)} :
           k \in 0..MaxFb}

\* the dicts a caller can write: no key twice
Requests ==
    {r \in SeqsUpTo(ReqJoints \X ReqAngles, MaxReq) :
        \A i, k \in 1..Len(r) : i # k => r[i][1] # r[k][1]}

FeedbackMsgs ==
    {[has_name |-> TRUE, name |-> n, has_position |-> TRUE, position |-> p] :
        n \in SeqsUpTo(FbJoints, MaxFb), p \in FbPositionLists}
    \cup
    {[has_name |-> FALSE, name |-> << >>, has_position |-> TRUE, position |-> p] :
        p \in FbPositionLists}
    \cup
    {[has_name |-> TRUE, name |-> n, has_position |-> FALSE, position |-> << >>] :
        n \in SeqsUpTo(FbJoints, MaxFb)}
    \cup
    {[has_name |-> FALSE, name |-> << >>, has_position |-> FALSE, position |-> << >>]}

\* the requests and messages of a caller that keeps the dict it got from
\* get_servo_angles: one item, one name, one position at most
ShortRequests == {r \in Requests : Len(r) <= 1}

ShortFeedbackMsgs ==
    {m \in FeedbackMsgs : Len(m.name) <= 1 /\ Len(m.position) <= 1}

\* what the caller writes into the dict it holds
CallerWrites == {<< "left_elbow_joint", 1234 >>, << "my_key", 1 >>}

(***************************************************************************)
(* State                                                                   *)
(***************************************************************************)
VARIABLES
    current_angles, \* self.current_angles: joint name -> 1/100 degree
    snapshot_ref,   \* the object the caller holds from get_servo_angles:
                    \* "none", "new dict" or "self.current_angles"
    snapshot,       \* what that object holds when it is a new dict
    published,      \* messages sent on servo_pub by the latest call
    stdout,         \* lines printed by the latest call
    result,         \* the latest call: its name and how it ended
    n_published,    \* messages sent on servo_pub since construction
    n_accepted,     \* set_servo_angles calls that returned True
    caller          \* the calling thread's place inside a call that has not
                    \* returned yet (the feedback callback runs meanwhile)

vars == << current_angles, snapshot_ref, snapshot, published, stdout, result,
           n_published, n_accepted, caller >>

\* the calling thread is in no call.  Otherwise: op is the method it is in,
\* pc the number of steps of it that are done, angles and target_angles the
\* method's locals of these names, log the messages it has published so
\* far, fed whether the feedback callback ran since it was entered
Idle ==
    [op |-> "idle", pc |-> 0, angles |-> << >>, target_angles |-> NoDict,
     log |-> << >>, fed |-> FALSE]

\* the mapping the caller reads through the reference it holds
Held ==
    IF snapshot_ref = "self.current_angles" THEN current_angles ELSE snapshot

\* servo.py:32-62
Init ==
    /\ current_angles = [joint \in DOMAIN SERVO_JOINTS |-> 0]
    /\ snapshot_ref = "none"
    /\ snapshot = NoDict
    /\ published = << >>
    /\ stdout = << >>
    /\ result = [op |-> "__init__", exc |-> NoError, ret |-> PyNone]
    /\ n_published = 0
    /\ n_accepted = 0
    /\ caller = Idle

\* the caller keeps the dict it holds across the next call, or lets go of it
CallerHolds(keep) ==
    /\ snapshot_ref' = IF keep THEN snapshot_ref ELSE "none"
    /\ snapshot' = IF keep THEN snapshot ELSE NoDict

\* a call of set_servo_angles(angles); when the call reaches publish, the
\* transport decides whether publish returns or raises
set_servo_angles(angles, keep) ==
    \E r \in {SetServoAngles(current_angles, angles, publish_ok) :
                  publish_ok \in BOOLEAN} :
        /\ n_published < MaxPublished
        /\ current_angles' = r.angles
        /\ published' = r.published
        /\ stdout' = r.out
        /\ result' = [op |-> "set_servo_angles", exc |-> r.exc,
                      ret |-> IF r.exc = NoError THEN PyTrue ELSE PyNone]
        /\ n_published' = n_published + Len(r.published)
        /\ n_accepted' = n_accepted + (IF r.exc = NoError THEN 1 ELSE 0)
        /\ CallerHolds(keep)
        /\ UNCHANGED caller

\* the transport delivers one /joint_states message
joint_state_callback(msg, keep) ==
    \E r \in {JointStateCallback(current_angles, msg)} :
        /\ current_angles' = r.angles
        /\ published' = << >>
        /\ stdout' = r.out
        /\ result' = [op |-> "_joint_state_callback", exc |-> r.exc,
                      ret |-> PyNone]
        /\ caller' = IF caller.op = "idle" THEN caller
                                           ELSE [caller EXCEPT !.fed = TRUE]
        /\ UNCHANGED << n_published, n_accepted >>
        /\ CallerHolds(keep)

\* a call of get_servo_angles(); the caller holds what it returns
get_servo_angles ==
    \E r \in {GetServoAngles(current_angles)} :
        /\ snapshot_ref' = r.ref
        /\ snapshot' = r.contents
        /\ published' = << >>
        /\ stdout' = << >>
        /\ result' = [op |-> "get_servo_angles", exc |-> NoError,
                      ret |-> PyDictRef(r.ref)]
        /\ UNCHANGED << current_angles, n_published, n_accepted, caller >>

\* the caller writes d[key] = value into the dict it holds
caller_writes(key, value) ==
    /\ snapshot_ref # "none"
    /\ IF snapshot_ref = "self.current_angles"
       THEN /\ current_angles' = DictSet(current_angles, key, value)
            /\ UNCHANGED snapshot
       ELSE /\ snapshot' = DictSet(snapshot, key, value)
            /\ UNCHANGED current_angles
    /\ result' = [op |-> "caller_writes", exc |-> NoError, ret |-> PyNone]
    /\ published' = << >>
    /\ stdout' = << >>
    /\ UNCHANGED << snapshot_ref, n_published, n_accepted, caller >>

\* a call of get_single_servo(joint_name)
get_single_servo(joint_name, keep) ==
    \E r \in {GetSingleServo(current_angles, joint_name)} :
        /\ result' = [op |-> "get_single_servo", exc |-> r.exc, ret |-> r.ret]
        /\ published' = << >>
        /\ stdout' = << >>
        /\ UNCHANGED << current_angles, n_published, n_accepted, caller >>
        /\ CallerHolds(keep)

\* a call of get_servo_limits(joint_name)
get_servo_limits(joint_name, keep) ==
    \E r \in {GetServoLimits(joint_name)} :
        /\ result' = [op |-> "get_servo_limits", exc |-> r.exc, ret |-> r.ret]
        /\ published' = << >>
        /\ stdout' = << >>
        /\ UNCHANGED << current_angles, n_published, n_accepted, caller >>
        /\ CallerHolds(keep)

CallSet(requests, keep) ==
    \E angles \in requests : set_servo_angles(angles, keep)

Feedback(msgs, keep) ==
    \E msg \in msgs : joint_state_callback(msg, keep)

CallGetSingle(keep) ==
    \E joint_name \in ReqJoints : get_single_servo(joint_name, keep)

CallGetLimits(keep) ==
    \E joint_name \in ReqJoints \cup {"None"} : get_servo_limits(joint_name, keep)

CallerWrite ==
    \E w \in CallerWrites : caller_writes(w[1], w[2])

\* callers that use a returned dict at once and let go of it
Next ==
    \/ CallSet(Requests, FALSE)
    \/ Feedback(FeedbackMsgs, FALSE)
    \/ get_servo_angles
    \/ CallGetSingle(FALSE)
    \/ CallGetLimits(FALSE)

Spec == Init /\ [][Next]_vars

\* a caller that keeps the dict it got from get_servo_angles and writes to it
NextSnapshot ==
    \/ CallSet(ShortRequests, TRUE)
    \/ Feedback(ShortFeedbackMsgs, TRUE)
    \/ get_servo_angles
    \/ CallerWrite

SpecSnapshot == Init /\ [][NextSnapshot]_vars

(***************************************************************************)
(* Calls of the methods built on set_servo_angles                          *)
(***************************************************************************)

\* (shoulder, elbow) arguments of the arm moves: the first step of the wave,
\* and a pair outside both ranges
ArmMoves == {<< 9000, 3000 >>, << 20000, -10000 >>}

\* (left, right) arguments of set_grippers: the two limits, and a pair
\* outside the range
GripperMoves == {<< 6000, -4500 >>, << -10000, 20000 >>}

\* the state after a call of method op that ended as r
Returns(op, r) ==
    /\ current_angles' = r.angles
    /\ published' = r.published
    /\ stdout' = r.out
    /\ result' = [op |-> op, exc |-> r.exc,
                  ret |-> IF r.exc = NoError THEN PyTrue ELSE PyNone]
    /\ n_published' = n_published + Len(r.published)
    /\ n_accepted' = n_accepted + (IF r.exc = NoError THEN 1 ELSE 0)
    /\ CallerHolds(FALSE)
    /\ UNCHANGED caller

set_single_servo(joint_name, angle) ==
    /\ n_published < MaxPublished
    /\ \E r \in {SetSingleServo(current_angles, joint_name, angle, publish_ok) :
                    publish_ok \in BOOLEAN} :
          Returns("set_single_servo", r)

move_left_arm(shoulder, elbow) ==
    /\ n_published < MaxPublished
    /\ \E r \in {MoveLeftArm(current_angles, shoulder, elbow, publish_ok) :
                    publish_ok \in BOOLEAN} :
          Returns("move_left_arm", r)

move_right_arm(shoulder, elbow) ==
    /\ n_published < MaxPublished
    /\ \E r \in {MoveRightArm(current_angles, shoulder, elbow, publish_ok) :
                    publish_ok \in BOOLEAN} :
          Returns("move_right_arm", r)

set_grippers(left, right) ==
    /\ n_published < MaxPublished
    /\ \E r \in {SetGrippers(current_angles, left, right, publish_ok) :
                    publish_ok \in BOOLEAN} :
          Returns("set_grippers", r)

open_grippers ==
    /\ n_published < MaxPublished
    /\ \E r \in {OpenGrippers(current_angles, publish_ok) :
                    publish_ok \in BOOLEAN} :
          Returns("open_grippers", r)

close_grippers ==
    /\ n_published < MaxPublished
    /\ \E r \in {CloseGrippers(current_angles, publish_ok) :
                    publish_ok \in BOOLEAN} :
          Returns("close_grippers", r)

set_neck(yaw) ==
    /\ n_published < MaxPublished
    /\ \E r \in {SetNeck(current_angles, yaw, publish_ok) :
                    publish_ok \in BOOLEAN} :
          Returns("set_neck", r)

look_left ==
    /\ n_published < MaxPublished
    /\ \E r \in {LookLeft(current_angles, publish_ok) : publish_ok \in BOOLEAN} :
          Returns("look_left", r)

look_right ==
    /\ n_published < MaxPublished
    /\ \E r \in {LookRight(current_angles, publish_ok) : publish_ok \in BOOLEAN} :
          Returns("look_right", r)

look_center ==
    /\ n_published < MaxPublished
    /\ \E r \in {LookCenter(current_angles, publish_ok) : publish_ok \in BOOLEAN} :
          Returns("look_center", r)

reset_all_servos ==
    /\ n_published < MaxPublished
    /\ \E r \in {ResetAllServos(current_angles, publish_ok) :
                    publish_ok \in BOOLEAN} :
          Returns("reset_all_servos", r)

\* the /joint_states message of a robot that stands where the command data
\* told it to: the names of SERVO_ORDER, the positions of data
EchoMsg(data) ==
    [has_name |-> TRUE, name |-> SERVO_ORDER,
     has_position |-> TRUE,
     position |-> [i \in 1..Len(data) |-> PyFloat(data[i])]]

\* the robot reports the command just published back on /joint_states
echo_feedback ==
    /\ published # << >>
    /\ joint_state_callback(EchoMsg(published[Len(published)]), FALSE)

CallSetSingle ==
    \E joint_name \in ReqJoints : \E angle \in ReqAngles :
        set_single_servo(joint_name, angle)

CallMoveLeftArm == \E m \in ArmMoves : move_left_arm(m[1], m[2])

CallMoveRightArm == \E m \in ArmMoves : move_right_arm(m[1], m[2])

CallSetGrippers == \E m \in GripperMoves : set_grippers(m[1], m[2])

CallSetNeck == \E yaw \in ReqAngles : set_neck(yaw)

\* callers of the convenience methods, with feedback and echoes in between
NextDerived ==
    \/ CallSetSingle
    \/ CallMoveLeftArm
    \/ CallMoveRightArm
    \/ CallSetGrippers
    \/ open_grippers
    \/ close_grippers
    \/ CallSetNeck
    \/ look_left
    \/ look_right
    \/ look_center
    \/ reset_all_servos
    \/ Feedback(ShortFeedbackMsgs, FALSE)
    \/ echo_feedback

SpecDerived == Init /\ [][NextDerived]_vars

(***************************************************************************)
(* wave_left_arm and wave_right_arm (servo.py:297-343): four arm moves     *)
(* with a time.sleep after each.  The calling thread is inside the method  *)
(* from the call to the return; the feedback callback runs while it        *)
(* sleeps.                                                                 *)
(***************************************************************************)

\* a wave that goes without the last move back to (0, 0)
WaveSteps_NoRest == << << 9000, 3000 >>, << 4500, 1000 >>, << 9000, 3000 >> >>

\* the (shoulder, elbow) arguments of the moves, servo.py:310-316 and 334-340
WaveSteps == << << 9000, 3000 >>, << 4500, 1000 >>, << 9000, 3000 >>, << 0, 0 >> >>

Waves == {"wave_left_arm", "wave_right_arm"}

\* the move method a wave calls
MoveOf(wave) == IF wave = "wave_left_arm" THEN "move_left_arm" ELSE "move_right_arm"

MoveArm(wave, current, shoulder, elbow, publish_ok) ==
    IF wave = "wave_left_arm"
    THEN MoveLeftArm(current, shoulder, elbow, publish_ok)
    ELSE MoveRightArm(current, shoulder, elbow, publish_ok)

\* the wave catching the exception of a move and going on to its sleep
WaveMove_GoesOn(wave, k, at) ==
    \E r \in {MoveArm(wave, current_angles, WaveSteps[k][1], WaveSteps[k][2],
                      publish_ok) : publish_ok \in BOOLEAN} :
        /\ current_angles' = r.angles
        /\ published' = r.published
        /\ stdout' = r.out
        /\ n_published' = n_published + Len(r.published)
        /\ n_accepted' = n_accepted + (IF r.exc = NoError THEN 1 ELSE 0)
        /\ result' = [op |-> MoveOf(wave), exc |-> r.exc,
                      ret |-> IF r.exc = NoError THEN PyTrue ELSE PyNone]
        /\ caller' = [at EXCEPT !.op = wave, !.pc = k,
                                !.log = at.log \o r.published]
        /\ CallerHolds(FALSE)


\* move number k of the wave, made by a thread that is at place at in it:
\* when the move returns the thread goes to sleep inside the wave, when it
\* raises the exception leaves the wave
WaveMove(wave, k, at) ==
    \E r \in {MoveArm(wave, current_angles, WaveSteps[k][1], WaveSteps[k][2],
                      publish_ok) : publish_ok \in BOOLEAN} :
        /\ current_angles' = r.angles
        /\ published' = r.published
        /\ stdout' = r.out
        /\ n_published' = n_published + Len(r.published)
        /\ n_accepted' = n_accepted + (IF r.exc = NoError THEN 1 ELSE 0)
        /\ IF r.exc = NoError
           THEN /\ result' = [op |-> MoveOf(wave), exc |-> NoError, ret |-> PyTrue]
                /\ caller' = [at EXCEPT !.op = wave, !.pc = k,
                                        !.log = at.log \o r.published]
           ELSE /\ result' = [op |-> wave, exc |-> r.exc, ret |-> PyNone]
                /\ caller' = Idle
        /\ CallerHolds(FALSE)

\* a call of wave_left_arm() or wave_right_arm(), up to its first sleep
wave_arm(wave) ==
    /\ caller.op = "idle"
    /\ n_published < MaxPublished
    /\ WaveMove(wave, 1, Idle)

\* time.sleep returns and the wave makes its next move
wave_step ==
    /\ caller.op \in Waves
    /\ caller.pc < Len(WaveSteps)
    /\ WaveMove(caller.op, caller.pc + 1, caller)

\* the last time.sleep returns and the wave returns True
wave_return ==
    /\ caller.op \in Waves
    /\ caller.pc = Len(WaveSteps)
    /\ result' = [op |-> caller.op, exc |-> NoError, ret |-> PyTrue]
    /\ caller' = Idle
    /\ published' = << >>
    /\ stdout' = << >>
    /\ CallerHolds(FALSE)
    /\ UNCHANGED << current_angles, n_published, n_accepted >>

CallWave == \E wave \in Waves : wave_arm(wave)

\* a caller that waves and, between waves, commands single joints, with
\* feedback arriving at any time
NextWave ==
    \/ CallWave
    \/ wave_step
    \/ wave_return
    \/ (caller.op = "idle" /\ CallSet(ShortRequests, FALSE))
    \/ Feedback(ShortFeedbackMsgs, FALSE)

\* time.sleep returns, and a thread that can run does run
SpecWave ==
    Init /\ [][NextWave]_vars /\ WF_vars(wave_step) /\ WF_vars(wave_return)

(***************************************************************************)
(* set_servo_angles on the calling thread while the transport's thread     *)
(* runs the feedback callback: the method takes no lock, so the callback   *)
(* can run between its statements.  It is cut here where it reads and      *)
(* where it writes self.current_angles.                                    *)
(***************************************************************************)

\* servo.py:118-125: the working copy is taken and the request validated
set_servo_angles_copy(angles) ==
    /\ caller.op = "idle"
    /\ n_published < MaxPublished
    /\ \E v \in {ValidateItems(angles, 1, current_angles, << >>)} :
          /\ stdout' = v.out
          /\ IF v.exc # NoError
             THEN /\ result' = [op |-> "set_servo_angles",
                                exc |-> BonicBotError(v.exc), ret |-> PyNone]
                  /\ caller' = Idle
             ELSE /\ result' = result
                  /\ caller' = [Idle EXCEPT !.op = "set_servo_angles", !.pc = 1,
                                            !.angles = angles,
                                            !.target_angles = v.target_angles]
    /\ published' = << >>
    /\ CallerHolds(FALSE)
    /\ UNCHANGED << current_angles, n_published, n_accepted >>

\* servo.py:127-135: the command array is built from the working copy and
\* published; publish returns or raises
set_servo_angles_publish ==
    /\ caller.op = "set_servo_angles"
    /\ caller.pc = 1
    /\ \E publish_ok \in BOOLEAN :
          IF publish_ok
          THEN /\ published' = << CommandData(caller.target_angles) >>
               /\ n_published' = n_published + 1
               /\ result' = result
               /\ caller' = [caller EXCEPT !.pc = 2,
                                !.log = << CommandData(caller.target_angles) >>]
          ELSE /\ published' = << >>
               /\ n_published' = n_published
               /\ result' = [op |-> "set_servo_angles",
                             exc |-> BonicBotError(TransportError),
                             ret |-> PyNone]
               /\ caller' = Idle
    /\ CallerHolds(FALSE)
    /\ UNCHANGED << current_angles, stdout, n_accepted >>

\* servo.py:138-140: the working copy is written over the cache, return True
set_servo_angles_update ==
    /\ caller.op = "set_servo_angles"
    /\ caller.pc = 2
    /\ current_angles' = DictUpdate(current_angles, caller.target_angles)
    /\ result' = [op |-> "set_servo_angles", exc |-> NoError, ret |-> PyTrue]
    /\ n_accepted' = n_accepted + 1
    /\ caller' = Idle
    /\ CallerHolds(FALSE)
    /\ UNCHANGED << published, stdout, n_published >>

CallSetCopy == \E angles \in ShortRequests : set_servo_angles_copy(angles)

\* one thread calling set_servo_angles and get_servo_angles, the
\* transport's thread delivering feedback at any time
NextThreads ==
    \/ CallSetCopy
    \/ set_servo_angles_publish
    \/ set_servo_angles_update
    \/ Feedback(ShortFeedbackMsgs, FALSE)
    \/ get_servo_angles

SpecThreads == Init /\ [][NextThreads]_vars

(***************************************************************************)
(* Properties                                                              *)
(***************************************************************************)

\* the request names a joint that is not configured
HasUnknownJoint(angles) ==
    \E i \in 1..Len(angles) : angles[i][1] \notin DOMAIN SERVO_JOINTS

IsBonicBotError(exc) == exc # NoError /\ exc[1] = "BonicBotError"

\* C1: in every reachable state, a call of set_servo_angles whose request
\* names at least one unknown joint, at any place in the request and
\* whatever the other items are, ends with BonicBotError, publishes nothing
\* and leaves current_angles exactly as it was.
C1_UnknownJointAllOrNothing ==
    \A angles \in Requests : \A publish_ok \in BOOLEAN :
        HasUnknownJoint(angles) =>
            \A r \in {SetServoAngles(current_angles, angles, publish_ok)} :
                /\ IsBonicBotError(r.exc)
                /\ r.published = << >>
                /\ r.angles = current_angles

\* C1 witness: after an accepted command moved the neck, a call whose first
\* item was clamped and whose second item names tail_joint has been refused
C1_Witness ==
    /\ result.op = "set_servo_angles"
    /\ result.exc = BonicBotError(UnknownJointError("tail_joint"))
    /\ stdout # << >>
    /\ published = << >>
    /\ n_accepted > 0
    /\ current_angles["neck_yaw_joint"] # 0

\* the nearest value of [lo, hi] to a
Clamp(a, lo, hi) == IF a < lo THEN lo ELSE IF a > hi THEN hi ELSE a

\* angles requested in the checks of a single joint: the inputs and the
\* joint's own two bounds
AnglesFor(joint) == ReqAngles \cup {SERVO_JOINTS[joint][1], SERVO_JOINTS[joint][2]}

\* C2: in every reachable state, for every configured joint j with range
\* [min, max] and every angle a, set_single_servo(j, a) succeeds and stores
\* min when a < min, max when a > max and a itself when min <= a <= max,
\* and get_single_servo(j) right after returns that value; the same holds
\* of every item j: a of a request of several known joints.
C2_StoredAngleIsClamped ==
    /\ \A j \in DOMAIN SERVO_JOINTS : \A a \in AnglesFor(j) :
          \A r \in {SetServoAngles(current_angles, << <<j, a>> >>, TRUE)} :
          \A c \in {Clamp(a, SERVO_JOINTS[j][1], SERVO_JOINTS[j][2])} :
              /\ r.exc = NoError
              /\ r.angles[j] = c
              /\ GetSingleServo(r.angles, j) = [exc |-> NoError, ret |-> PyFloat(c)]
    /\ \A angles \in Requests :
          ~HasUnknownJoint(angles) =>
              \A r \in {SetServoAngles(current_angles, angles, TRUE)} :
                  /\ r.exc = NoError
                  /\ \A i \in 1..Len(angles) :
                        r.angles[angles[i][1]] =
                            Clamp(angles[i][2], SERVO_JOINTS[angles[i][1]][1],
                                  SERVO_JOINTS[angles[i][1]][2])

\* C2 witness: a request of 200 degrees for the elbow and 50 degrees for the
\* neck returned True; the elbow is stored at its maximum, the neck as asked
C2_Witness ==
    /\ result.op = "set_servo_angles"
    /\ result.ret = PyTrue
    /\ stdout = << ClampWarning("left_elbow_joint", 20000) >>
    /\ current_angles["left_elbow_joint"] = 5000
    /\ current_angles["neck_yaw_joint"] = 5000

\* C3: SERVO_ORDER lists every name of SERVO_JOINTS exactly once and no
\* other name, and every message a call of set_servo_angles has published
\* has one element per configured joint, element i being math.radians of
\* the angle the call stored for SERVO_ORDER[i], whichever joints the
\* request named and in whatever order.
C3_CommandArrayOrder ==
    /\ Len(SERVO_ORDER) = Cardinality(DOMAIN SERVO_JOINTS)
    /\ {SERVO_ORDER[i] : i \in 1..Len(SERVO_ORDER)} = DOMAIN SERVO_JOINTS
    /\ \A k \in 1..Len(published) :
          /\ Len(published[k]) = Cardinality(DOMAIN SERVO_JOINTS)
          /\ \A i \in 1..Len(published[k]) :
                published[k][i] = ToRadians(current_angles[SERVO_ORDER[i]])

\* C3 witness: a request that listed the neck before the elbow (both were
\* clamped, in that order) has published elbow and neck at places 2 and 7
C3_Witness ==
    /\ Len(published) = 1
    /\ Len(stdout) = 2
    /\ stdout[1][2] = "neck_yaw_joint"
    /\ stdout[2][2] = "left_elbow_joint"
    /\ published[1][2] = ToRadians(5000)
    /\ published[1][7] = ToRadians(-9000)

\* C4: in every reachable state, when servo_pub.publish raises during
\* set_servo_angles, the caller gets the one BonicBotError and
\* current_angles is exactly what it was before the call; and whenever a
\* call changes current_angles it has published.
C4_PublishFailureLeavesCache ==
    \A angles \in Requests :
        /\ ~HasUnknownJoint(angles) =>
              \A r \in {SetServoAngles(current_angles, angles, FALSE)} :
                  /\ r.exc = BonicBotError(TransportError)
                  /\ r.angles = current_angles
                  /\ r.published = << >>
        /\ \A publish_ok \in BOOLEAN :
              \A r \in {SetServoAngles(current_angles, angles, publish_ok)} :
                  r.angles # current_angles => Len(r.published) = 1

\* C4 witness: after an accepted command, a call whose items were all valid
\* (one was clamped) ended with the wrapped transport error
C4_Witness ==
    /\ result.op = "set_servo_angles"
    /\ result.exc = BonicBotError(TransportError)
    /\ stdout # << >>
    /\ published = << >>
    /\ n_accepted = 1
    /\ n_published = 1

\* C5: the number of messages published equals the number of
\* set_servo_angles calls that returned True: a call that returned True has
\* published exactly one message, and a call that raised, a feedback
\* message and the getters have published none.
C5_OnePublishPerAcceptedCall ==
    /\ n_published = n_accepted
    /\ Len(published) =
          (IF result.op = "set_servo_angles" /\ result.ret = PyTrue
           THEN 1 ELSE 0)

\* C5 witness: two commands accepted and two messages published, then a
\* refused read of an unknown joint
C5_Witness ==
    /\ n_accepted = 2
    /\ n_published = 2
    /\ result.op = "get_single_servo"
    /\ result.exc = UnknownJointRaised("tail_joint")

\* the indices of names that name joint j and have a position
Overlap(msg, j) ==
    {i \in 1..Len(msg.name) : msg.name[i] = j /\ i <= Len(msg.position)}

\* the indices of names that name joint j and have no position
Beyond(msg, j) ==
    {i \in 1..Len(msg.name) : msg.name[i] = j /\ i > Len(msg.position)}

SetMax(S) == CHOOSE x \in S : \A y \in S : y <= x

\* the message with both lists cut to the length of the shorter one
CutToShorter(msg) ==
    LET n == PyMin(Len(msg.name), Len(msg.position))
    IN  [msg EXCEPT !.name = SubSeq(msg.name, 1, n),
                    !.position = SubSeq(msg.position, 1, n)]

\* C6 as claimed: in every reachable state and for every feedback message,
\* the callback returns normally and every known joint named at an index
\* with no matching position keeps its cached angle.
C6_NamedBeyondKeepsAngle ==
    \A msg \in FeedbackMsgs :
        \A r \in {JointStateCallback(current_angles, msg)} :
            /\ r.exc = NoError
            /\ \A j \in DOMAIN current_angles :
                  Beyond(msg, j) # {} => r.angles[j] = current_angles[j]

\* C6 as amended: in every reachable state and for every feedback message,
\* whatever the two lengths (a missing list counts as empty), the callback
\* returns normally, changes only joints named at an index below both
\* lengths (so a known joint named only at indices with no matching
\* position keeps its cached angle), and leaves the cache as the message
\* cut to the shorter of the two lengths would.
C6_OnlyOverlapUpdates ==
    \A msg \in FeedbackMsgs :
        \A r \in {JointStateCallback(current_angles, msg)} :
            /\ r.exc = NoError
            /\ DOMAIN r.angles = DOMAIN current_angles
            /\ \A j \in DOMAIN current_angles :
                  r.angles[j] # current_angles[j] => Overlap(msg, j) # {}
            /\ Len(msg.name) # Len(msg.position) =>
                  r.angles = JointStateCallback(current_angles,
                                                CutToShorter(msg)).angles

\* C6 witness: feedback went through without an error line and left the
\* elbow at the fed-back 20 degrees while the neck keeps the 90 degrees a
\* command was clamped to
C6_Witness ==
    /\ result.op = "_joint_state_callback"
    /\ result.exc = NoError
    /\ stdout = << >>
    /\ current_angles["left_elbow_joint"] = ToDegrees(FbReadings(1))
    /\ current_angles["neck_yaw_joint"] = 9000

\* C7 as claimed: a feedback message whose processing hits an internal
\* error is discarded as a whole: the callback returns normally and
\* current_angles after the call equals current_angles before it.
C7_MalformedFeedbackDiscarded ==
    [][(result'.op = "_joint_state_callback" /\ stdout' # << >>) =>
          (result'.exc = NoError /\ current_angles' = current_angles)]_vars

\* the positions the loop converts are all numbers
WellFormed(msg) ==
    \A i \in 1..Len(msg.position) : msg.position[i].t = "float"

\* C8: in every reachable state and for every well-formed feedback message,
\* the callback returns normally and logs nothing; every known joint named
\* at an index that has a position is cached at math.degrees of the
\* position at the last such index, unclamped; every other joint keeps its
\* cached angle; no key is added for an unknown name.
C8_FeedbackOverwrites ==
    \A msg \in FeedbackMsgs :
        WellFormed(msg) =>
            \A r \in {JointStateCallback(current_angles, msg)} :
                /\ r.exc = NoError
                /\ r.out = << >>
                /\ DOMAIN r.angles = DOMAIN current_angles
                /\ \A j \in DOMAIN current_angles :
                      r.angles[j] =
                          IF Overlap(msg, j) = {}
                          THEN current_angles[j]
                          ELSE ToDegrees(msg.position[SetMax(Overlap(msg, j))].v)

\* C8 witness: after a command was accepted, feedback put the elbow at
\* about -120 degrees, outside its range [0, 50], and the neck at 20 degrees
C8_Witness ==
    /\ result.op = "_joint_state_callback"
    /\ stdout = << >>
    /\ n_accepted > 0
    /\ current_angles["left_elbow_joint"] = ToDegrees(FbReadings(2))
    /\ current_angles["neck_yaw_joint"] = ToDegrees(FbReadings(1))
    /\ DOMAIN current_angles = DOMAIN SERVO_JOINTS

\* the joints a request names
Named(angles) == {angles[i][1] : i \in 1..Len(angles)}

\* what C9 says of one request: the call returns True after one publish,
\* every joint the request does not name keeps its cached angle, and its
\* element of the published array is math.radians of that cached angle
C9_Check(angles) ==
    \A r \in {SetServoAngles(current_angles, angles, TRUE)} :
        /\ r.exc = NoError
        /\ Len(r.published) = 1
        /\ DOMAIN r.angles = DOMAIN current_angles
        /\ \A k \in (DOMAIN current_angles) \ Named(angles) :
              r.angles[k] = current_angles[k]
        /\ \A i \in 1..Len(SERVO_ORDER) :
              SERVO_ORDER[i] \notin Named(angles) =>
                  r.published[1][i] = ToRadians(current_angles[SERVO_ORDER[i]])

\* C9: in every reachable state, a set_servo_angles call that returns True
\* changes only the joints its request names: every other joint keeps its
\* cached angle, whether a command or feedback put it there, and its
\* element of the published array is math.radians of that cached angle.
\* This holds of every request of the inputs and of every request of a
\* single configured joint (one gripper finger, one arm joint, the neck).
C9_OnlyNamedJointsChange ==
    /\ \A angles \in Requests : ~HasUnknownJoint(angles) => C9_Check(angles)
    /\ \A j \in DOMAIN SERVO_JOINTS : \A a \in AnglesFor(j) :
          C9_Check(<< <<j, a>> >>)

\* C9 witness: a command for the neck alone was accepted while the elbow was
\* cached at the fed-back -120 degrees; the elbow is still cached there and
\* was published as such
C9_Witness ==
    /\ result.op = "set_servo_angles"
    /\ result.ret = PyTrue
    /\ stdout = << ClampWarning("neck_yaw_joint", 20000) >>
    /\ current_angles["neck_yaw_joint"] = 9000
    /\ current_angles["left_elbow_joint"] = ToDegrees(FbReadings(2))
    /\ published[1][2] = ToRadians(ToDegrees(FbReadings(2)))

\* C10: get_servo_angles returns a copy: the mapping the caller gets equals
\* current_angles at the call and the call changes no state of the
\* controller; a later set_servo_angles or feedback message does not change
\* the mapping the caller holds; writing to that mapping does not change
\* current_angles.
C10_SnapshotIsACopy ==
    [][/\ result'.op = "get_servo_angles" =>
            /\ Held' = current_angles
            /\ UNCHANGED << current_angles, n_published, n_accepted >>
       /\ (result'.op \in {"set_servo_angles", "_joint_state_callback"}
            /\ snapshot_ref # "none") =>
               Held' = Held
       /\ result'.op = "caller_writes" =>
            current_angles' = current_angles]_vars

\* C10 witness: the caller holds a dict it wrote two keys into, and a command
\* accepted afterwards has moved the cache away from it
C10_Witness ==
    /\ snapshot_ref = "new dict"
    /\ "my_key" \in DOMAIN snapshot
    /\ snapshot["left_elbow_joint"] = 1234
    /\ result.op = "set_servo_angles"
    /\ result.ret = PyTrue
    /\ current_angles["left_elbow_joint"] = 5000
    /\ "my_key" \notin DOMAIN current_angles

\* the joint names callers ask the getters about: every configured joint
\* and the unknown names of the requests
AskedJoints == (DOMAIN SERVO_JOINTS) \cup ReqJoints

\* C11: in every reachable state get_single_servo(joint) and
\* get_servo_limits(joint) raise BonicBotError exactly when joint is not a
\* key of SERVO_JOINTS, and otherwise return the cached angle and the
\* (min, max) of that joint; get_servo_limits() returns the ranges of all
\* configured joints; and a getter step, returning or raising, leaves
\* current_angles as it was and publishes nothing.
C11_GettersOnlyLookUp ==
    /\ [](\A joint_name \in AskedJoints :
            /\ \A r \in {GetSingleServo(current_angles, joint_name)} :
                 IF joint_name \in DOMAIN SERVO_JOINTS
                 THEN r.exc = NoError /\ r.ret = PyFloat(current_angles[joint_name])
                 ELSE IsBonicBotError(r.exc) /\ r.ret = PyNone
            /\ \A r \in {GetServoLimits(joint_name)} :
                 IF joint_name \in DOMAIN SERVO_JOINTS
                 THEN r.exc = NoError /\ r.ret = PyTuple(SERVO_JOINTS[joint_name])
                 ELSE IsBonicBotError(r.exc) /\ r.ret = PyNone)
    /\ [](\A r \in {GetServoLimits("None")} :
            /\ r.exc = NoError
            /\ r.ret.t = "dict"
            /\ DOMAIN r.ret.v = {SERVO_ORDER[i] : i \in 1..Len(SERVO_ORDER)}
            /\ \A j \in DOMAIN r.ret.v : r.ret.v[j] = SERVO_JOINTS[j])
    /\ [][result'.op \in {"get_single_servo", "get_servo_limits"} =>
            /\ current_angles' = current_angles
            /\ published' = << >>
            /\ n_published' = n_published]_vars

\* C11 witness: get_single_servo("tail_joint") has raised while the cache
\* held a fed-back angle
C11_Witness ==
    /\ result.op = "get_single_servo"
    /\ result.exc = UnknownJointRaised("tail_joint")
    /\ current_angles["left_elbow_joint"] = ToDegrees(FbReadings(2))

\* C12: current_angles is 0 for every configured joint at construction, and
\* in every reachable state its key set is exactly the set of SERVO_JOINTS
\* names (which is the set of SERVO_ORDER names).
C12_CacheKeysAreTheJoints ==
    /\ result.op = "__init__" =>
          \A j \in DOMAIN SERVO_JOINTS : current_angles[j] = 0
    /\ DOMAIN current_angles = DOMAIN SERVO_JOINTS
    /\ DOMAIN current_angles = {SERVO_ORDER[i] : i \in 1..Len(SERVO_ORDER)}

\* C12 witness: a request naming tail_joint has been refused after feedback
\* (which also named wheel_left_joint in some messages) moved the elbow
C12_Witness ==
    /\ result.op = "set_servo_angles"
    /\ result.exc = BonicBotError(UnknownJointError("tail_joint"))
    /\ current_angles["left_elbow_joint"] = ToDegrees(FbReadings(2))
    /\ current_angles["neck_yaw_joint"] = ToDegrees(FbReadings(1))

\* the place of joint j in the command array
IndexOf(j) == CHOOSE i \in 1..Len(SERVO_ORDER) : SERVO_ORDER[i] = j

ClampTo(j, a) == Clamp(a, SERVO_JOINTS[j][1], SERVO_JOINTS[j][2])

\* (first, second) arguments tried on the two-joint methods
PairArgs == ArmMoves \cup GripperMoves \cup {<< 5000, 5000 >>}

\* r, the outcome of a two-joint method called with a1 for joint j1 and a2
\* for joint j2, is the outcome of one set_servo_angles call on the two
\* joints: at most one publish, and when the publish went out one message
\* that carries both joints, which are cached at their validated angles
C13_TwoJoints(r, j1, a1, j2, a2, publish_ok) ==
    /\ r = SetServoAngles(current_angles, << <<j1, a1>>, <<j2, a2>> >>, publish_ok)
    /\ Len(r.published) = (IF publish_ok THEN 1 ELSE 0)
    /\ publish_ok =>
          /\ r.exc = NoError
          /\ r.published[1][IndexOf(j1)] = ToRadians(ClampTo(j1, a1))
          /\ r.published[1][IndexOf(j2)] = ToRadians(ClampTo(j2, a2))
          /\ r.angles = [current_angles EXCEPT ![j1] = ClampTo(j1, a1),
                                               ![j2] = ClampTo(j2, a2)]
    /\ ~publish_ok => r.angles = current_angles /\ IsBonicBotError(r.exc)

\* C13: in every reachable state, whether publish returns or raises,
\* set_single_servo(j, a) has the published messages, the resulting cache,
\* the printed lines and the outcome of set_servo_angles({j: a}), for known
\* and unknown j; and move_left_arm(s, e), move_right_arm(s, e) and
\* set_grippers(l, r) each have those of one set_servo_angles call on
\* exactly their two joints (one publish, both joints in that message).
C13_DerivedAreOneSetCall ==
    \A publish_ok \in BOOLEAN :
        /\ \A j \in ReqJoints : \A a \in ReqAngles :
              \A r \in {SetSingleServo(current_angles, j, a, publish_ok)} :
                  /\ r = SetServoAngles(current_angles, << <<j, a>> >>, publish_ok)
                  /\ Len(r.published) <= 1
                  /\ r.exc = NoError =>
                        r.angles = [current_angles EXCEPT ![j] = ClampTo(j, a)]
        /\ \A m \in PairArgs :
              /\ C13_TwoJoints(MoveLeftArm(current_angles, m[1], m[2], publish_ok),
                               "left_shoulder_pitch_joint", m[1],
                               "left_elbow_joint", m[2], publish_ok)
              /\ C13_TwoJoints(MoveRightArm(current_angles, m[1], m[2], publish_ok),
                               "right_shoulder_pitch_joint", m[1],
                               "right_elbow_joint", m[2], publish_ok)
              /\ C13_TwoJoints(SetGrippers(current_angles, m[1], m[2], publish_ok),
                               "left_gripper_finger1_joint", m[1],
                               "right_gripper_finger1_joint", m[2], publish_ok)

\* C13 witness: move_left_arm(200, -100) has returned True after the right
\* arm was moved: both left joints were clamped and published in one message
\* that still carries the right arm
C13_Witness ==
    /\ result.op = "move_left_arm"
    /\ result.ret = PyTrue
    /\ Len(stdout) = 2
    /\ Len(published) = 1
    /\ published[1][1] = ToRadians(18000)
    /\ published[1][2] = 0
    /\ published[1][3] = ToRadians(9000)
    /\ current_angles["left_shoulder_pitch_joint"] = 18000
    /\ current_angles["right_elbow_joint"] = 3000

\* the two joints a wave moves
Shoulder(wave) ==
    IF wave = "wave_left_arm" THEN "left_shoulder_pitch_joint"
                              ELSE "right_shoulder_pitch_joint"

Elbow(wave) ==
    IF wave = "wave_left_arm" THEN "left_elbow_joint" ELSE "right_elbow_joint"

\* the (shoulder, elbow) commands the wave is said to publish, in order
C14_Commands == << << 9000, 3000 >>, << 4500, 1000 >>, << 9000, 3000 >>, << 0, 0 >> >>

\* a thread inside a wave has published, in this order, the first pc of
\* the four commands, and no other message
C14_StepsInOrder ==
    caller.op \in Waves =>
        /\ caller.pc \in 1..Len(C14_Commands)
        /\ Len(caller.log) = caller.pc
        /\ \A k \in 1..Len(caller.log) :
              /\ caller.log[k][IndexOf(Shoulder(caller.op))] =
                    ToRadians(C14_Commands[k][1])
              /\ caller.log[k][IndexOf(Elbow(caller.op))] =
                    ToRadians(C14_Commands[k][2])

\* the wave a step of the calling thread belongs to
C14_WaveOf ==
    IF caller.op \in Waves THEN caller.op
    ELSE IF caller'.op \in Waves THEN caller'.op ELSE result'.op

\* every step the waving thread takes (a move, the return, a raise): no
\* clamp warning is printed; the joints outside the arm keep their cached
\* angles; and the wave returns only after four publishes, with True, the
\* arm being cached at (0, 0) if no feedback came since the wave was called
C14_EveryStep ==
    [][result'.op \in Waves \cup {"move_left_arm", "move_right_arm"} =>
        /\ stdout' = << >>
        /\ \A j \in DOMAIN current_angles :
              j \notin {Shoulder(C14_WaveOf), Elbow(C14_WaveOf)} =>
                  current_angles'[j] = current_angles[j]
        /\ Len(published') <= 1
        /\ (result'.op \in Waves /\ result'.exc = NoError) =>
              /\ result'.ret = PyTrue
              /\ caller.pc = Len(C14_Commands)
              /\ Len(caller.log) = Len(C14_Commands)
              /\ ~caller.fed =>
                    /\ current_angles'[Shoulder(result'.op)] = 0
                    /\ current_angles'[Elbow(result'.op)] = 0]_vars

\* a wave that was called ends
C14_Terminates == (caller.op \in Waves) ~> (caller.op = "idle")

\* C14 as stated: a wave, once started, publishes exactly the four commands
\* (90,30), (45,10), (90,30), (0,0) of its arm in this order and then
\* returns True, and that is the only way it ends; it always terminates; no
\* step is clamped; the other joints' cached angles are not changed by it;
\* with no feedback in between the arm is cached at (0, 0) at the return.
C14_WaveRunsToCompletion ==
    /\ []C14_StepsInOrder
    /\ C14_EveryStep
    /\ [][result'.op \in Waves => result'.exc = NoError]_vars
    /\ C14_Terminates

\* C14 amended: the same, except that a wave may also end by raising: when
\* the publish of one of its moves raises, the wave ends there with
\* BonicBotError.  A wave in which every publish returns publishes exactly
\* the four commands in order and returns True.
C14_WaveCompletesUnlessPublishRaises ==
    /\ []C14_StepsInOrder
    /\ C14_EveryStep
    /\ [][(result'.op \in Waves /\ result'.exc # NoError) =>
            /\ result'.exc = BonicBotError(TransportError)
            /\ published' = << >>
            /\ current_angles' = current_angles]_vars
    /\ C14_Terminates

\* C14 witness: wave_left_arm has returned True after its four publishes,
\* feedback having moved the neck meanwhile
C14_Witness ==
    /\ result = [op |-> "wave_left_arm", exc |-> NoError, ret |-> PyTrue]
    /\ n_accepted = Len(WaveSteps)
    /\ current_angles["left_shoulder_pitch_joint"] = 0
    /\ current_angles["left_elbow_joint"] = 0
    /\ current_angles["neck_yaw_joint"] = ToDegrees(FbReadings(1))

\* r is a preset call that stored value for each joint of joints without
\* clamping it, or one whose publish raised
C15_Stores(r, publish_ok, joints, value) ==
    /\ publish_ok <=> r.exc = NoError
    /\ r.exc = NoError =>
          /\ r.out = << >>
          /\ \A j \in joints :
                /\ r.angles[j] = value
                /\ SERVO_JOINTS[j][1] <= value /\ value <= SERVO_JOINTS[j][2]
                /\ r.published[1][IndexOf(j)] = ToRadians(value)

\* C15: in every reachable state (after commands, feedback and echoes), a
\* successful look_left / look_right / look_center leaves the neck cached
\* at 90 / -90 / 0, a successful open_grippers / close_grippers leaves both
\* gripper fingers at 60 / -45, and a successful reset_all_servos leaves
\* every configured joint at 0 and publishes an array of zeros; none of
\* them prints a clamp warning, each value lying inside its joint's range.
C15_PresetsStoreNominal ==
    \A publish_ok \in BOOLEAN :
        /\ C15_Stores(LookLeft(current_angles, publish_ok), publish_ok,
                      {"neck_yaw_joint"}, 9000)
        /\ C15_Stores(LookRight(current_angles, publish_ok), publish_ok,
                      {"neck_yaw_joint"}, -9000)
        /\ C15_Stores(LookCenter(current_angles, publish_ok), publish_ok,
                      {"neck_yaw_joint"}, 0)
        /\ C15_Stores(OpenGrippers(current_angles, publish_ok), publish_ok,
                      {"left_gripper_finger1_joint",
                       "right_gripper_finger1_joint"}, 6000)
        /\ C15_Stores(CloseGrippers(current_angles, publish_ok), publish_ok,
                      {"left_gripper_finger1_joint",
                       "right_gripper_finger1_joint"}, -4500)
        /\ C15_Stores(ResetAllServos(current_angles, publish_ok), publish_ok,
                      DOMAIN SERVO_JOINTS, 0)
        /\ \A r \in {ResetAllServos(current_angles, publish_ok)} :
              r.exc = NoError =>
                  /\ r.angles = [j \in DOMAIN SERVO_JOINTS |-> 0]
                  /\ r.published = << [i \in 1..Len(SERVO_ORDER) |-> 0] >>

\* C15 witness: reset_all_servos has returned True and published zeros
\* after an earlier accepted command
C15_Witness ==
    /\ result = [op |-> "reset_all_servos", exc |-> NoError, ret |-> PyTrue]
    /\ n_accepted = 2
    /\ published = << [i \in 1..Len(SERVO_ORDER) |-> 0] >>
    /\ \A j \in DOMAIN SERVO_JOINTS : current_angles[j] = 0

\* equal, rounding of the two conversions aside: at most one grid unit apart
Near(x, y) == x - y \in -1..1

\* angles inside the range of joint j: its limits, the requested angles
\* that fit, and two angles that fit every joint
InRangeAngles(j) ==
    {a \in AnglesFor(j) \cup {0, 1234} :
        SERVO_JOINTS[j][1] <= a /\ a <= SERVO_JOINTS[j][2]}

\* C16: in every state reached right after a call that published a command,
\* the feedback message with name = SERVO_ORDER and position = the
\* published array is processed without error and leaves every cached angle
\* where the command stored it, rounding aside; and from every reachable
\* state set_single_servo(j, a) with a in the range of j, then that echo,
\* then get_single_servo(j) returns a, rounding aside.
C16_EchoRoundTrip ==
    /\ published # << >> =>
          \A r \in {JointStateCallback(current_angles,
                                       EchoMsg(published[Len(published)]))} :
              /\ r.out = << >>
              /\ DOMAIN r.angles = DOMAIN current_angles
              /\ \A j \in DOMAIN current_angles :
                    Near(r.angles[j], current_angles[j])
    /\ \A j \in DOMAIN SERVO_JOINTS : \A a \in InRangeAngles(j) :
          \A s \in {SetSingleServo(current_angles, j, a, TRUE)} :
              /\ s.exc = NoError
              /\ s.angles[j] = a
              /\ \A f \in {JointStateCallback(s.angles, EchoMsg(s.published[1]))} :
                    \A g \in {GetSingleServo(f.angles, j)} :
                        /\ g.exc = NoError
                        /\ g.ret.t = "float"
                        /\ Near(g.ret.v, a)

\* C16 witness: the echo of a command that set the neck to 50 degrees has
\* been processed, and the neck is cached one grid unit beside 50 degrees
C16_Witness ==
    /\ result.op = "_joint_state_callback"
    /\ stdout = << >>
    /\ current_angles["neck_yaw_joint"] = ToDegrees(ToRadians(5000))
    /\ current_angles["neck_yaw_joint"] # 5000
    /\ n_accepted >= 1

\* C17: with set_servo_angles on one thread and the feedback callback on
\* another, the step of set_servo_angles that writes the cache and returns
\* True leaves every joint the request does not name as it was just before
\* (so a feedback update applied after the working copy was taken is still
\* there), and get_servo_angles returns the cache as it is between two
\* steps, never a mixture.
C17_SetIsAtomicToFeedback ==
    [][/\ (caller.op = "set_servo_angles" /\ caller'.op = "idle"
              /\ result'.exc = NoError) =>
             \A k \in (DOMAIN current_angles) \ Named(caller.angles) :
                 current_angles'[k] = current_angles[k]
       /\ snapshot_ref' # "none" => Held' = current_angles]_vars

\* C18: every element of every published command array, taken in degrees,
\* lies within the (min, max) of the joint at its index (rounding of the
\* conversion aside), after any serialized interleaving of set_servo_angles
\* and feedback, also for joints the request did not name.
C18_PublishedWithinLimits ==
    \A n \in 1..Len(published) : \A i \in 1..Len(SERVO_ORDER) :
        /\ ToDegrees(published[n][i]) >= SERVO_JOINTS[SERVO_ORDER[i]][1] - 1
        /\ ToDegrees(published[n][i]) <= SERVO_JOINTS[SERVO_ORDER[i]][2] + 1

\* C19 as stated: in every state right after a successful set_servo_angles
\* the cached angle of each joint of SERVO_ORDER equals math.degrees of its
\* element of the message just published.
C19_CacheIsDegreesOfWire ==
    published # << >> =>
        \A i \in 1..Len(SERVO_ORDER) :
            current_angles[SERVO_ORDER[i]] = ToDegrees(published[Len(published)][i])

\* the cache agrees with message data: each element is math.radians of the
\* cached angle of the joint at its index
AgreesWith(current, data) ==
    /\ Len(data) = Len(SERVO_ORDER)
    /\ \A i \in 1..Len(SERVO_ORDER) : data[i] = ToRadians(current[SERVO_ORDER[i]])

\* C19 amended: in every state right after a successful set_servo_angles
\* each element of the message just published is math.radians of the cached
\* angle of its joint (so its degrees value is the cached angle up to
\* rounding); and the agreement lasts: a step that publishes nothing and is
\* not a feedback message changing a joint leaves the cache, hence the
\* agreement with the latest message, as it was.
C19_WireIsRadiansOfCache ==
    /\ [](published # << >> =>
            /\ Len(published) = 1
            /\ AgreesWith(current_angles, published[1])
            /\ \A i \in 1..Len(SERVO_ORDER) :
                  Near(ToDegrees(published[1][i]), current_angles[SERVO_ORDER[i]]))
    /\ [][(published' = << >> /\ ~(result'.op = "_joint_state_callback"
                                    /\ current_angles' # current_angles)) =>
            /\ current_angles' = current_angles
            /\ published # << >> => AgreesWith(current_angles', published[1])]_vars

\* C19 witness: a command has put the neck at 50 degrees and the message
\* just published carries its radians, whose degrees value is not 50
C19_Witness ==
    /\ result.op = "set_servo_angles"
    /\ result.ret = PyTrue
    /\ current_angles["neck_yaw_joint"] = 5000
    /\ published[1][IndexOf("neck_yaw_joint")] = ToRadians(5000)
    /\ ToDegrees(published[1][IndexOf("neck_yaw_joint")]) # 5000
    /\ current_angles["left_elbow_joint"] = ToDegrees(FbReadings(2))

\* C20: in every reachable state set_servo_angles({}) is accepted: when
\* publish returns it has published one message carrying math.radians of the
\* cached angle of every joint of SERVO_ORDER, returns True, prints nothing
\* and leaves current_angles unchanged.
C20_EmptyRequestAccepted ==
    \A r \in {SetServoAngles(current_angles, << >>, TRUE)} :
        /\ r.exc = NoError
        /\ r.out = << >>
        /\ r.published =
              << [i \in 1..Len(SERVO_ORDER) |->
                     ToRadians(current_angles[SERVO_ORDER[i]])] >>
        /\ r.angles = current_angles

\* C20 witness: the only command accepted so far has just returned True and
\* the elbow and the neck are cached at fed-back angles that no request of
\* the inputs stores: the request named no joint, and the message carries
\* the fed-back angles
C20_Witness ==
    /\ result.op = "set_servo_angles"
    /\ result.ret = PyTrue
    /\ n_accepted = 1
    /\ stdout = << >>
    /\ current_angles["left_elbow_joint"] = ToDegrees(FbReadings(2))
    /\ current_angles["neck_yaw_joint"] = ToDegrees(FbReadings(1))
    /\ published[1][IndexOf("left_elbow_joint")] = ToRadians(ToDegrees(FbReadings(2)))

\* a step in which a wave ends with an exception; the failing move is
\* number caller.pc + 1 (caller.pc is 0 when the call itself fails)
C21_WaveRaises == result'.op \in Waves /\ result'.exc # NoError

\* what holds of every wave whose move number k fails to publish: the
\* exception is BonicBotError and reaches the caller of the wave, which is
\* then in no call (moves k+1..4 are not made); the wave has published its
\* first k-1 commands and nothing in the failing move; it does not return
\* True; the failing move leaves current_angles as it was; and a thread
\* stays inside a wave only after a move that published
C21_WaveStopsAtFailure ==
    [][/\ C21_WaveRaises =>
            /\ IsBonicBotError(result'.exc)
            /\ result'.ret = PyNone
            /\ caller'.op = "idle"
            /\ published' = << >>
            /\ n_published' = n_published
            /\ Len(caller.log) = caller.pc
            /\ caller.pc < Len(C14_Commands)
            /\ current_angles' = current_angles
       /\ (caller'.op \in Waves /\ caller'.pc # caller.pc) =>
            /\ result'.exc = NoError
            /\ Len(published') = 1
            /\ caller'.pc = Len(caller'.log)]_vars

\* the arm of the wave is cached at the angles of the last move made before
\* the failing one, or, when the first move fails, where it was before the
\* wave
C21_ArmAtPreviousStep ==
    /\ current_angles'[Shoulder(result'.op)] =
          (IF caller.pc = 0 THEN current_angles[Shoulder(result'.op)]
                            ELSE C14_Commands[caller.pc][1])
    /\ current_angles'[Elbow(result'.op)] =
          (IF caller.pc = 0 THEN current_angles[Elbow(result'.op)]
                            ELSE C14_Commands[caller.pc][2])

\* C21 as stated: if the publish of move k of a wave fails the wave stops
\* there (BonicBotError to the caller, moves k+1..4 never published, no
\* return of True) and current_angles holds, for that arm, the angles of
\* move k-1, or those from before the wave when k = 1.
C21_FailedWaveLeavesPreviousStep ==
    /\ C21_WaveStopsAtFailure
    /\ [][C21_WaveRaises => C21_ArmAtPreviousStep]_vars

\* C21 amended: the same, the arm being cached at the angles of move k-1
\* when no feedback message arrived since the wave was called; feedback
\* that arrived during a sleep stays in the cache, which the failing move
\* leaves as it was.
C21_FailedWaveLeavesCache ==
    /\ C21_WaveStopsAtFailure
    /\ [][(C21_WaveRaises /\ ~caller.fed) => C21_ArmAtPreviousStep]_vars

\* C21 witness: wave_left_arm has raised at its third move, no feedback
\* having come: two commands went out and the arm is cached at (45, 10)
C21_Witness ==
    /\ result = [op |-> "wave_left_arm", exc |-> BonicBotError(TransportError),
                 ret |-> PyNone]
    /\ caller = Idle
    /\ n_published = 2
    /\ n_accepted = 2
    /\ current_angles["left_shoulder_pitch_joint"] = 4500
    /\ current_angles["left_elbow_joint"] = 1000
    /\ current_angles["neck_yaw_joint"] = 0

====
